---- MODULE Spec2Model ----
(***************************************************************************)
(* Complaints dashboard (Complaints Analysis/Oos.py): the loader, the      *)
(* sidebar filters, the category aggregation and the Excel export of one   *)
(* Streamlit session, and the reporter extraction on its own.              *)
(*                                                                         *)
(* Text is a sequence of characters, so that the regular expression and    *)
(* strip() of extract_reporter are computed character by character.  A     *)
(* character is a one-character string, or "U+" and its code point when    *)
(* the character has no escape in a string.  A missing cell (pandas NaN)   *)
(* is the one-element sequence NaN, which no text equals.  Percentages are *)
(* integers in tenths of a percent (333 is 33.3).                          *)
(***************************************************************************)
EXTENDS Integers, Sequences, FiniteSets

VARIABLES
    uploaded_file,    \* the sidebar uploader's file, NoFile before an upload
    pc,               \* where the last script run ended
    exception,        \* the exception that ended it, "" when none
    df,               \* load_data's table (line 48)
    date_range,       \* the date_input widget's value (line 52)
    category_filter,  \* the multiselect widget's value (line 53)
    filtered_df,      \* line 56
    total_complaints, \* the "Total complaints" metric (line 63)
    category_report,  \* lines 71-85
    shown,            \* the elements the run rendered
    excel_file,       \* the bytes handed to the download button (line 162)
    subject,          \* extract_reporter's argument
    reporter          \* extract_reporter's result

vars == <<uploaded_file, pc, exception, df, date_range, category_filter,
          filtered_df, total_complaints, category_report, shown, excel_file,
          subject, reporter>>

(***************************************************************************)
(* Bounds.                                                                 *)
(***************************************************************************)
MaxRows == 3
MaxMalformedRows == 2
MaxPieces == 4

(***************************************************************************)
(* Text.                                                                   *)
(***************************************************************************)
NaN == <<"NaN">>

isna(x) == x = NaN

Unknown == <<"U", "n", "k", "n", "o", "w", "n">>

Undefined == <<"U", "n", "d", "e", "f", "i", "n", "e", "d">>

\* The literal part of the pattern r'reported by (.+)$'.
ReportedBy == <<"r", "e", "p", "o", "r", "t", "e", "d", " ", "b", "y", " ">>

\* The characters str.strip() removes: those for which str.isspace() holds.
Whitespace ==
    {"\t", "\n", "U+000B", "\f", "\r", "U+001C", "U+001D", "U+001E", "U+001F",
     " ", "U+0085", "U+00A0", "U+1680", "U+2000", "U+2001", "U+2002", "U+2003",
     "U+2004", "U+2005", "U+2006", "U+2007", "U+2008", "U+2009", "U+200A",
     "U+2028", "U+2029", "U+202F", "U+205F", "U+3000"}

RECURSIVE lstrip(_)
lstrip(s) ==
    IF s # <<>> /\ Head(s) \in Whitespace THEN lstrip(Tail(s)) ELSE s

RECURSIVE rstrip(_)
rstrip(s) ==
    IF s # <<>> /\ s[Len(s)] \in Whitespace
    THEN rstrip(SubSeq(s, 1, Len(s) - 1))
    ELSE s

strip(s) == rstrip(lstrip(s))

\* The pattern's literal is matched case-sensitively, character by character.
LiteralAt(s, i) ==
    /\ i + Len(ReportedBy) - 1 <= Len(s)
    /\ SubSeq(s, i, i + Len(ReportedBy) - 1) = ReportedBy

\* '.' matches any character but a line break; '+' is greedy.
RECURSIVE DotRun(_)
DotRun(t) ==
    IF t # <<>> /\ Head(t) # "\n" THEN 1 + DotRun(Tail(t)) ELSE 0

\* '$' (no MULTILINE) matches at the end of the text and before a line break
\* that ends it.
DollarAt(t, k) ==
    \/ k = Len(t)
    \/ k = Len(t) - 1 /\ t[Len(t)] = "\n"

\* '(.+)$' at the start of t: '.+' takes k >= 1 characters and '$' holds
\* after them.  The greedy run is the only length at which '$' can hold.
GroupMatches(t) == DotRun(t) >= 1 /\ DollarAt(t, DotRun(t))

Group1(t) == SubSeq(t, 1, DotRun(t))

After(s, i) == SubSeq(s, i + Len(ReportedBy), Len(s))

\* re.search: the positions at which the whole pattern matches; the leftmost
\* is the match.
MatchPositions(s) ==
    {i \in 1..Len(s) : LiteralAt(s, i) /\ GroupMatches(After(s, i))}

Leftmost(S) == CHOOSE i \in S : \A j \in S : i <= j

extract_reporter_nostrip(subj) ==
    IF isna(subj) THEN Unknown
    ELSE IF MatchPositions(subj) = {} THEN Unknown
    ELSE Group1(After(subj, Leftmost(MatchPositions(subj))))

extract_reporter(subj) ==
    IF isna(subj) THEN Unknown
    ELSE IF MatchPositions(subj) = {} THEN Unknown
    ELSE strip(Group1(After(subj, Leftmost(MatchPositions(subj)))))

(***************************************************************************)
(* The upload.  A table row is a function from column names to cells.      *)
(***************************************************************************)
NoFile == [sheet |-> "", columns |-> {}, rows |-> <<>>]

\* No export made.
NoExport == <<>>

\* The columns the dashboard expects in the sheet (spec section 6; lines 16-20, 30).
ExpectedColumns ==
    {"Main Category Name", "Product Name", "Ticket Created At eet",
     "FP Name", "Picker Name", "Ticket Subject"}

\* A timestamp cell: a datetime, a text (day 0: not a date), or empty.
DateTime(d, h) == [kind |-> "datetime", day |-> d, hour |-> h]
DateText(d, h) == [kind |-> "text", day |-> d, hour |-> h]
BlankTime == [kind |-> "blank", day |-> 0, hour |-> 0]
NaT == [kind |-> "NaT", day |-> 0, hour |-> 0]

Oos == <<"O", "o", "s">>

RawRow(cat, time, subj) ==
    [c \in ExpectedColumns |->
        CASE c = "Main Category Name" -> cat
          [] c = "Product Name" -> <<"P">>
          [] c = "Ticket Created At eet" -> time
          [] c = "FP Name" -> <<"F">>
          [] c = "Picker Name" -> <<"K">>
          [] c = "Ticket Subject" -> subj]

\* The rows uploads are built from: every kind of category cell (missing,
\* empty, blank, named), of timestamp cell (datetime, date text, other text,
\* empty) and of subject (missing, with and without a reporter, with a
\* reporter of spaces only).
RawRows ==
    { RawRow(NaN, DateTime(1, 9), ReportedBy \o <<"J">>),
      RawRow(<<>>, DateText(2, 17), NaN),
      RawRow(<<" ">>, DateTime(1, 9), ReportedBy \o <<" ">>),
      RawRow(Oos, DateTime(2, 17), <<"x", " ">> \o ReportedBy \o <<"J">>),
      RawRow(<<" ">>, DateTime(2, 9), <<"x">>),
      RawRow(Oos, DateText(0, 0), ReportedBy \o <<"J">>),
      RawRow(Undefined, BlankTime, NaN) }

RECURSIVE SeqsUpTo(_, _)
SeqsUpTo(S, n) ==
    IF n = 0 THEN {<<>>}
    ELSE LET shorter == SeqsUpTo(S, n - 1)
         IN  shorter \cup {Append(t, x) : t \in {u \in shorter : Len(u) = n - 1}, x \in S}

\* The uploads with the expected sheet and columns.
WellFormedFiles ==
    { [sheet |-> "Internal Requests", columns |-> ExpectedColumns, rows |-> rows] :
          rows \in SeqsUpTo(RawRows, MaxRows) }

\* The uploads that lack one of the expected columns, or the sheet.
MalformedFiles ==
    { [sheet |-> "Internal Requests", columns |-> ExpectedColumns \ {lacking},
       rows |-> [i \in DOMAIN rows |->
                    [c \in ExpectedColumns \ {lacking} |-> rows[i][c]]]] :
          lacking \in ExpectedColumns, rows \in SeqsUpTo(RawRows, MaxMalformedRows) }
    \cup
    { [sheet |-> "Sheet1", columns |-> ExpectedColumns, rows |-> rows] :
          rows \in SeqsUpTo(RawRows, MaxMalformedRows) }

Files == WellFormedFiles \cup MalformedFiles

(***************************************************************************)
(* load_data (lines 13-40).                                                *)
(***************************************************************************)
\* Lines 15-21: the columns renamed, the others kept as they are.
NewName(c) ==
    CASE c = "Main Category Name" -> "Main_Category"
      [] c = "Product Name" -> "Product"
      [] c = "Ticket Created At eet" -> "Report_Time"
      [] c = "FP Name" -> "Facility"
      [] c = "Picker Name" -> "Picker"
      [] OTHER -> c

rename(row) ==
    [n \in {NewName(c) : c \in DOMAIN row} |->
        row[CHOOSE c \in DOMAIN row : NewName(c) = n]]

\* df[name] = value, row by row.
WithColumn(row, name, value) ==
    [n \in DOMAIN row \cup {name} |-> IF n = name THEN value ELSE row[n]]

\* pd.to_datetime(errors='coerce') on one cell.
to_datetime(cell) ==
    IF cell.kind = "datetime" \/ (cell.kind = "text" /\ cell.day >= 1)
    THEN DateTime(cell.day, cell.hour)
    ELSE NaT

DayNames ==
    <<"Monday", "Tuesday", "Wednesday", "Thursday", "Friday", "Saturday", "Sunday">>

\* Day 1 is a Monday.
day_name(t) == DayNames[((t.day - 1) % 7) + 1]

\* Line 37, then line 38.
fillna(cat) == IF isna(cat) THEN Undefined ELSE cat

replace_empty(cat) == IF cat = <<>> THEN Undefined ELSE cat

normalize_category(cat) == replace_empty(fillna(cat))

\* dropna(subset=['Report_Time']) (line 33).
dropna_none(rows) == rows

dropna(rows) == SelectSeq(rows, LAMBDA r : r["Report_Time"] # NaT)

\* The exception load_data raises on the file, "" when it returns: the sheet
\* is looked up by read_excel (line 14), 'Ticket Subject' at line 30,
\* 'Report_Time' at line 32, 'Main_Category' at line 37.
LoadRaises(file) ==
    IF file.sheet # "Internal Requests" THEN "ValueError"
    ELSE IF "Ticket Subject" \notin file.columns THEN "KeyError"
    ELSE IF "Ticket Created At eet" \notin file.columns THEN "KeyError"
    ELSE IF "Main Category Name" \notin file.columns THEN "KeyError"
    ELSE ""

\* Lines 30 and 32 on one renamed row.
WithReporterAndTime(r) ==
    WithColumn(WithColumn(r, "Reporter", extract_reporter(r["Ticket Subject"])),
               "Report_Time", to_datetime(r["Report_Time"]))

\* Lines 15-32, row by row.
Parsed(rows) == [i \in DOMAIN rows |-> WithReporterAndTime(rename(rows[i]))]

\* Lines 34-38 on one retained row.
DerivedRow(r) ==
    WithColumn(
        WithColumn(
            WithColumn(
                WithColumn(r, "Day", day_name(r["Report_Time"])),
                "Hour", r["Report_Time"].hour),
            "Date", r["Report_Time"].day),
        "Main_Category", normalize_category(r["Main_Category"]))

Derived(rows) == [i \in DOMAIN rows |-> DerivedRow(rows[i])]

load_data(file) == Derived(dropna(Parsed(file.rows)))

\* The columns of load_data's table: the renamed ones and lines 30-36's.
df_columns(file) ==
    {NewName(c) : c \in file.columns} \cup {"Reporter", "Day", "Hour", "Date"}

(***************************************************************************)
(* The filter (lines 52-59).                                               *)
(***************************************************************************)
Dates == 1..2

\* The values the date_input widget returns for a range: a tuple of two
\* dates, the first not after the second; of one date, when the start of a
\* range is picked and its end is not yet; of none.
DateRanges ==
    {r \in Dates \X Dates : r[1] <= r[2]} \cup {<<d>> : d \in Dates} \cup {<<>>}

Column(rows, name) == {rows[i][name] : i \in DOMAIN rows}

Min(S) == CHOOSE x \in S : \A y \in S : x <= y
Max(S) == CHOOSE x \in S : \A y \in S : y <= x

\* Both ends are inclusive (line 57).
InDateRange(d, range) == range[1] <= d /\ d <= range[2]

Selected(row, range, categories) ==
    InDateRange(row["Date"], range) /\ row["Main_Category"] \in categories

filter(rows, range, categories) ==
    SelectSeq(rows, LAMBDA r : Selected(r, range, categories))

(***************************************************************************)
(* The aggregation (lines 71-85).                                          *)
(***************************************************************************)
\* Code points of the characters of the categories: groupby sorts its keys.
Ord(c) ==
    CASE c = " " -> 32 [] c = "O" -> 79 [] c = "U" -> 85 [] c = "d" -> 100
      [] c = "e" -> 101 [] c = "f" -> 102 [] c = "i" -> 105 [] c = "n" -> 110
      [] c = "o" -> 111 [] c = "s" -> 115

RECURSIVE LexLess(_, _)
LexLess(a, b) ==
    IF b = <<>> THEN FALSE
    ELSE IF a = <<>> THEN TRUE
    ELSE IF Head(a) # Head(b) THEN Ord(Head(a)) < Ord(Head(b))
    ELSE LexLess(Tail(a), Tail(b))

RECURSIVE Sorted(_)
Sorted(S) ==
    IF S = {} THEN <<>>
    ELSE LET least == CHOOSE x \in S : \A y \in S \ {x} : LexLess(x, y)
         IN  <<least>> \o Sorted(S \ {least})

\* The rows of one group, in table order.
Group(rows, key) == SelectSeq(rows, LAMBDA r : r["Main_Category"] = key)

\* Series.count(): the cells that are not missing.
count(rows, name) == Cardinality({i \in DOMAIN rows : ~isna(rows[i][name])})

\* Series.value_counts().to_dict(): each value that occurs, with its count.
value_counts_unique(rows, name) ==
    [v \in Column(rows, name) \ {NaN} |-> 1]

value_counts(rows, name) ==
    [v \in Column(rows, name) \ {NaN} |->
        Cardinality({i \in DOMAIN rows : rows[i][name] = v})]

(***************************************************************************)
(* Line 78 in double arithmetic.  num / den, the product by 100 and        *)
(* round(1)'s product by 10 are each rounded to 53 significant bits, ties  *)
(* to even, and round(1) then takes the integer nearest the last product,  *)
(* ties to even.  The three roundings move the value by less than one part *)
(* in 2^50, so the result is the tenth nearest the exact 1000 * num / den  *)
(* unless that is half way between two tenths; then the sign of the        *)
(* accumulated error decides.  The error is computed exactly: with         *)
(* e = 52 + Shift(num, den) the quotient's mantissa is M, the nearest      *)
(* integer to num * 2^e / den, the product by 100 drops k bits of 100 * M  *)
(* and the product by 10 drops k2 bits of ten times the mantissa kept.     *)
(* Each rounding's error is a small integer, found from the low bits of M  *)
(* (M modulo 2^12), in units of 2^-e.  Sound for den < 2^17.               *)
(***************************************************************************)
RECURSIVE Pow2(_)
Pow2(n) == IF n = 0 THEN 1 ELSE 2 * Pow2(n - 1)

\* a * 2^e modulo m.
RECURSIVE TimesPow2Mod(_, _, _)
TimesPow2Mod(a, e, m) ==
    IF e = 0 THEN a % m ELSE TimesPow2Mod((2 * a) % m, e - 1, m)

\* The least s with num * 2^s >= den: num / den is in [2^-s, 2^(1-s)).
RECURSIVE Shift(_, _)
Shift(num, den) == IF num >= den THEN 0 ELSE 1 + Shift(2 * num, den)

\* Rounding to nearest, ties to even, of a value with remainder rem out of
\* modulus above its integer part: the rounded value less the value, in
\* units of 1 / modulus.
RoundingError(rem, modulus, odd) ==
    IF 2 * rem > modulus \/ (2 * rem = modulus /\ odd) THEN modulus - rem
    ELSE -rem

\* num * 2^e modulo den: what the quotient's mantissa leaves.
QuotientRem(num, den) == TimesPow2Mod(num, 52 + Shift(num, den), den)

\* The low 12 bits of the integer part of num * 2^e / den.
QuotientLow(num, den) ==
    (TimesPow2Mod(num, 52 + Shift(num, den), 4096 * den) - QuotientRem(num, den))
        \div den

\* den times the error of the double num / den, in units of 2^-e.
QuotientError(num, den) ==
    RoundingError(QuotientRem(num, den), den, QuotientLow(num, den) % 2 = 1)

\* The low 12 bits of the mantissa M of the double num / den.
MantissaLow(num, den) ==
    (QuotientLow(num, den) + (IF QuotientError(num, den) > 0 THEN 1 ELSE 0))
        % 4096

\* a + err / 2^52 < b, for integers a, b and an error far below 2^52.
Below(a, b, err) == a < b \/ (a = b /\ err < 0)

\* The bits a product p of the mantissa drops to fit 53: the error of the
\* rounding that drops k bits, and the low 5 bits of the mantissa kept.
ProductError(p, k) ==
    RoundingError(p % Pow2(k), Pow2(k), (p % Pow2(k + 1)) \div Pow2(k) = 1)

ProductLow(p, k, err) == ((p + err) % Pow2(k + 5)) \div Pow2(k)

\* 100 * M is below 2^59 (6 bits dropped) or not (7).
PercentDropped(num, den, e1) ==
    IF Below(100 * num * Pow2(Shift(num, den)), 128 * den, e1) THEN 6 ELSE 7

\* Ten times the percentage's mantissa is below 2^56 (3 bits dropped) or
\* not (4).
TenthsDropped(num, den, e1, k, e2) ==
    IF Below(1000 * num * Pow2(Shift(num, den)), Pow2(4 + k) * den,
             1000 * e1 + 10 * e2 * den)
    THEN 3 ELSE 4

\* den * 2^e times what the double num / den * 100 * 10 exceeds the exact
\* 1000 * num / den by, from the errors e1, e2, e3 of the three roundings.
TenthsError(den, e1, k, e2, e3) == 1000 * e1 + den * (10 * e2 + Pow2(k) * e3)

TenthsErrorFrom(num, den, e1, k, e2, m2low) ==
    TenthsError(den, e1, k, e2,
                ProductError(10 * m2low, TenthsDropped(num, den, e1, k, e2)))

PercentErrorFrom(num, den, e1, p, k, e2) ==
    TenthsErrorFrom(num, den, e1, k, e2, ProductLow(p, k, e2))

QuotientErrorFrom(num, den, e1, p, k) ==
    PercentErrorFrom(num, den, e1, p, k, ProductError(p, k))

DoubleError(num, den) ==
    QuotientErrorFrom(num, den, QuotientError(num, den),
                      100 * MantissaLow(num, den),
                      PercentDropped(num, den, QuotientError(num, den)))

\* q and r: the exact 1000 * num / den is q + r / den.
RoundedTenthsOf(num, den, q, r) ==
    IF 2 * r < den THEN q
    ELSE IF 2 * r > den THEN q + 1
    ELSE IF DoubleError(num, den) < 0 THEN q
    ELSE IF DoubleError(num, den) > 0 THEN q + 1
    ELSE IF q % 2 = 0 THEN q ELSE q + 1

\* round(1) of num / den * 100, in tenths of a percent.
RoundedTenths_truncated(num, den) == (1000 * num) \div den

RoundedTenths(num, den) ==
    RoundedTenthsOf(num, den, (1000 * num) \div den, (1000 * num) % den)

\* The values of a column in order of first appearance.
RECURSIVE FirstSeen(_, _)
FirstSeen(rows, name) ==
    IF rows = <<>> THEN <<>>
    ELSE LET before == FirstSeen(SubSeq(rows, 1, Len(rows) - 1), name)
             v == rows[Len(rows)][name]
         IN  IF \E i \in DOMAIN before : before[i] = v THEN before
             ELSE Append(before, v)

\* Insertion of a (reporter, count) pair into a list kept in descending
\* order of count, after the pairs of equal count.
RECURSIVE InsertByCount(_, _)
InsertByCount(list, pair) ==
    IF list = <<>> THEN <<pair>>
    ELSE IF Head(list)[2] >= pair[2]
         THEN <<Head(list)>> \o InsertByCount(Tail(list), pair)
         ELSE <<pair>> \o list

RECURSIVE SortByCount(_)
SortByCount(pairs) ==
    IF pairs = <<>> THEN <<>>
    ELSE InsertByCount(SortByCount(SubSeq(pairs, 1, Len(pairs) - 1)),
                       pairs[Len(pairs)])

\* format_reporters (lines 81-83): the reporters in descending order of
\* count, those of equal count in order of first appearance.
format_reporters(rows, reporter_dict) ==
    LET seen == FirstSeen(rows, "Reporter")
    IN  SortByCount([i \in DOMAIN seen |-> <<seen[i], reporter_dict[seen[i]]>>])

\* Line 77: the percentages are of the filtered rows.
total_reports_of_table(filtered, table) == Len(table)

total_reports(filtered, table) == Len(filtered)

\* The summary row of one group (lines 72-73, 78, 85).
ReportRow(key, group, total) ==
    [Main_Category |-> key,
     Report_Count |-> count(group, "Main_Category"),
     Reporters |-> value_counts(group, "Reporter"),
     Percentage |-> RoundedTenths(count(group, "Main_Category"), total),
     Top_Reporters |-> format_reporters(group, value_counts(group, "Reporter"))]

ReportRows(keys, filtered, total) ==
    [i \in DOMAIN keys |-> ReportRow(keys[i], Group(filtered, keys[i]), total)]

\* groupby('Main_Category').agg(...).reset_index(): one row per key, the
\* keys in ascending order, a missing key in no group.
CategoryReport(filtered, table) ==
    ReportRows(Sorted(Column(filtered, "Main_Category") \ {NaN}), filtered,
               total_reports(filtered, table))

(***************************************************************************)
(* The export (lines 149-165).                                             *)
(***************************************************************************)
SummaryColumns == <<"Main_Category", "Report_Count", "Percentage", "Top_Reporters">>

DetailedColumns ==
    <<"Date", "Report_Time", "Main_Category", "Product", "Reporter", "Facility">>

AllComplaintsColumns == <<"Date", "Main_Category", "Product", "Reporter", "Facility">>

Range(f) == {f[i] : i \in DOMAIN f}

\* A cell the writer stores nothing for.
EmptyCell == [kind |-> "blank"]

\* What df.to_excel stores of a value of a column (line 153): a date and a
\* timestamp as Excel dates, a count and a percentage as numbers, a text as
\* a string; a missing value is handed to the writer as the empty text, and
\* for an empty text the writer stores nothing.
ExcelCell(column, v) ==
    CASE column = "Date" -> [kind |-> "date", day |-> v]
      [] column = "Report_Time" ->
            [kind |-> "datetime", day |-> v.day, hour |-> v.hour]
      [] column \in {"Report_Count", "Percentage"} ->
            [kind |-> "number", value |-> v]
      [] column = "Top_Reporters" -> [kind |-> "string", value |-> v]
      [] OTHER ->
            IF isna(v) \/ v = <<>> THEN EmptyCell
            ELSE [kind |-> "string", value |-> v]

HeaderRow(columns) ==
    [j \in DOMAIN columns |-> [kind |-> "string", value |-> columns[j]]]

CellRow(columns, row) ==
    [j \in DOMAIN columns |-> ExcelCell(columns[j], row[columns[j]])]

\* DataFrame.to_excel(index=False): a header row, then one row per table row.
Sheet_without_header(columns, rows) ==
    [i \in DOMAIN rows |-> CellRow(columns, rows[i])]

Sheet(columns, rows) ==
    <<HeaderRow(columns)>> \o [i \in DOMAIN rows |-> CellRow(columns, rows[i])]

\* The export is of the filtered rows and their summary (lines 159-160).
to_excel(report, filtered, table) ==
    [Category_Summary |-> Sheet(SummaryColumns, report),
     Detailed_Complaints |-> Sheet(DetailedColumns, filtered)]

(***************************************************************************)
(* The re-reading of an exported sheet (spec section 8, round trip), as    *)
(* pd.read_excel does it; the script itself never reads the export.  The   *)
(* first row of the sheet is the header.  The sheet ends at the last row   *)
(* with a stored cell.  A cell with nothing stored is read as a missing    *)
(* value, an Excel date as a timestamp.                                    *)
(***************************************************************************)
Stored(row) == \E j \in DOMAIN row : row[j].kind # "blank"

LastStored(sheet) ==
    IF \E i \in DOMAIN sheet : Stored(sheet[i])
    THEN Max({i \in DOMAIN sheet : Stored(sheet[i])})
    ELSE 0

ReadCell(cell) ==
    CASE cell.kind = "blank" -> NaN
      [] cell.kind = "date" -> DateTime(cell.day, 0)
      [] cell.kind = "datetime" -> DateTime(cell.day, cell.hour)
      [] OTHER -> cell.value

read_sheet(sheet) ==
    [i \in 1..(LastStored(sheet) - 1) |->
        [j \in DOMAIN sheet[i + 1] |-> ReadCell(sheet[i + 1][j])]]

(***************************************************************************)
(* One run of the script (lines 43-172), from the uploaded file and the    *)
(* widgets' values.  first: the widgets have no value yet and take their   *)
(* defaults; clicked: the run is the one the Generate button started.      *)
(***************************************************************************)
Halted(at, raised, table, range, categories, filtered, report, elements) ==
    [pc |-> at, exception |-> raised, df |-> table, date_range |-> range,
     category_filter |-> categories, filtered_df |-> filtered,
     total_complaints |-> Len(filtered), category_report |-> report,
     shown |-> elements, excel_file |-> NoExport]

\* Lines 61-139, rendered before the table of all complaints.
SummaryElements == {"filters", "metrics", "category_table", "charts", "reporter_tabs"}

\* The columns line 143 selects that the table lacks.
MissingForDisplay_none(file) == {}

MissingForDisplay(file) == Range(AllComplaintsColumns) \ df_columns(file)

\* Lines 143-172: the table of all complaints, the button, the export.
RunDisplay(file, table, range, categories, filtered, report, clicked) ==
    IF MissingForDisplay(file) # {}
    THEN Halted("all_complaints", "KeyError", table, range, categories, filtered,
                report, SummaryElements)
    ELSE [pc |-> "end", exception |-> "", df |-> table, date_range |-> range,
          category_filter |-> categories, filtered_df |-> filtered,
          total_complaints |-> Len(filtered), category_report |-> report,
          shown |-> SummaryElements \cup {"all_complaints", "generate_button"}
                    \cup (IF clicked THEN {"download_button"} ELSE {}),
          excel_file |-> IF clicked THEN to_excel(report, filtered, table)
                         ELSE NoExport]

\* Lines 61-139: the metrics and the category report of the filtered rows.
RunReport(file, table, range, categories, filtered, clicked) ==
    RunDisplay(file, table, range, categories, filtered,
               CategoryReport(filtered, table), clicked)

\* Lines 56-59.  date_range[0] or date_range[1] of a tuple of fewer than two
\* dates raises IndexError: the sidebar is rendered, nothing after it.
RunFilter(file, table, range, categories, clicked) ==
    IF Len(range) < 2
    THEN Halted("filtered_df", "IndexError", table, range, categories, <<>>, <<>>,
                {"filters"})
    ELSE RunReport(file, table, range, categories,
                   filter(table, range, categories), clicked)

\* Lines 52-53: the widgets, with their defaults on the first run.
\* df['Date'].min() of no rows is NaN, which date_input rejects.
RunWidgets(file, table, first, range, categories, clicked) ==
    IF table = <<>>
    THEN Halted("date_input", "StreamlitAPIException", table, <<>>, {}, <<>>, <<>>, {})
    ELSE RunFilter(file, table,
                   IF first
                   THEN <<Min(Column(table, "Date")), Max(Column(table, "Date"))>>
                   ELSE range,
                   IF first THEN Column(table, "Main_Category") ELSE categories,
                   clicked)

\* Line 48 on, load_data not yet cached for the file.
Run(file, first, range, categories, clicked) ==
    IF LoadRaises(file) # ""
    THEN Halted("load_data", LoadRaises(file), <<>>, <<>>, {}, <<>>, <<>>, {})
    ELSE RunWidgets(file, load_data(file), first, range, categories, clicked)

Assign(r) ==
    /\ pc' = r.pc
    /\ exception' = r.exception
    /\ df' = r.df
    /\ date_range' = r.date_range
    /\ category_filter' = r.category_filter
    /\ filtered_df' = r.filtered_df
    /\ total_complaints' = r.total_complaints
    /\ category_report' = r.category_report
    /\ shown' = r.shown
    /\ excel_file' = r.excel_file

\* A rerun after a widget changed: st.cache_data (line 12) returns the table
\* load_data made of the file, and the script goes on from line 50.
Rerun(range, categories, clicked) ==
    /\ Assign(RunWidgets(uploaded_file, df, FALSE, range, categories, clicked))
    /\ UNCHANGED <<uploaded_file, subject, reporter>>

(***************************************************************************)
(* The session.                                                            *)
(***************************************************************************)
Init ==
    /\ uploaded_file = NoFile
    /\ pc = "st.stop"
    /\ exception = ""
    /\ df = <<>>
    /\ date_range = <<>>
    /\ category_filter = {}
    /\ filtered_df = <<>>
    /\ total_complaints = 0
    /\ category_report = <<>>
    /\ shown = {}
    /\ excel_file = NoExport
    /\ subject = NaN
    /\ reporter = NaN

\* The user uploads a file (line 43): the first run past line 46.
Upload ==
    /\ uploaded_file = NoFile
    /\ \E file \in Files :
          /\ uploaded_file' = file
          /\ Assign(Run(file, TRUE, <<>>, {}, FALSE))
    /\ UNCHANGED <<subject, reporter>>

\* The user changes the date picker in the sidebar: each change of its value,
\* the pick of a start date with no end date included, reruns the script.
ChangeDateRange ==
    /\ "filters" \in shown
    /\ \E range \in DateRanges \ {date_range} :
          Rerun(range, category_filter, FALSE)

\* The user picks other categories among those of the table (line 53).
ChangeCategoryFilter ==
    /\ "filters" \in shown
    /\ \E categories \in (SUBSET Column(df, "Main_Category")) \ {category_filter} :
          Rerun(date_range, categories, FALSE)

\* The user presses "Generate Excel Report" (line 157).
ClickGenerate ==
    /\ "generate_button" \in shown
    /\ Rerun(date_range, category_filter, TRUE)

Next == Upload \/ ChangeDateRange \/ ChangeCategoryFilter \/ ClickGenerate

Spec == Init /\ [][Next]_vars

(***************************************************************************)
(* extract_reporter on its own (lines 24-28), over the subjects made of up *)
(* to MaxPieces pieces.                                                    *)
(***************************************************************************)
\* The literal with a capital, for the search's case sensitivity.
ReportedByCapital == <<"R">> \o Tail(ReportedBy)

Pieces ==
    {ReportedBy, ReportedByCapital, <<"J">>, <<"x">>, <<" ">>, <<"\n">>, <<"\r">>}

RECURSIVE Concat(_)
Concat(pieces) ==
    IF pieces = <<>> THEN <<>> ELSE Head(pieces) \o Concat(Tail(pieces))

\* "Issue X reported by Jane Doe" (spec section 8).
JaneDoeSubject ==
    <<"I", "s", "s", "u", "e", " ", "X", " ">> \o ReportedBy
        \o <<"J", "a", "n", "e", " ", "D", "o", "e">>

Subjects ==
    {Concat(p) : p \in SeqsUpTo(Pieces, MaxPieces)} \cup {NaN, JaneDoeSubject}

InitExtract ==
    /\ uploaded_file = NoFile
    /\ pc = "extract_reporter"
    /\ exception = ""
    /\ df = <<>>
    /\ date_range = <<>>
    /\ category_filter = {}
    /\ filtered_df = <<>>
    /\ total_complaints = 0
    /\ category_report = <<>>
    /\ shown = {}
    /\ excel_file = NoExport
    /\ subject \in Subjects
    /\ reporter = NaN

Extract ==
    /\ pc = "extract_reporter"
    /\ reporter' = extract_reporter(subject)
    /\ pc' = "return"
    /\ UNCHANGED <<uploaded_file, exception, df, date_range, category_filter,
                   filtered_df, total_complaints, category_report, shown,
                   excel_file, subject>>

NextExtract == Extract

SpecExtract == InitExtract /\ [][NextExtract]_vars

(***************************************************************************)
(* The claims.                                                             *)
(***************************************************************************)
Abs(x) == IF x < 0 THEN -x ELSE x

RECURSIVE SumSeq(_)
SumSeq(q) == IF q = <<>> THEN 0 ELSE Head(q) + SumSeq(Tail(q))

RECURSIVE SumValues(_, _)
SumValues(f, S) ==
    IF S = {} THEN 0
    ELSE LET x == CHOOSE y \in S : TRUE
         IN  f[x] + SumValues(f, S \ {x})

\* The k-th smallest element of a set of numbers.
Kth(S, k) == CHOOSE i \in S : Cardinality({j \in S : j <= i}) = k

Uploaded == uploaded_file # NoFile

PercentageSum ==
    SumSeq([i \in DOMAIN category_report |-> category_report[i].Percentage])

\* 0.05 per category, in tenths of a percent: half a tenth per category.
WithinTolerance == 2 * Abs(PercentageSum - 1000) <= Len(category_report)

\* C1 as stated: for every selection the percentages of the category summary
\* sum to 100 within 0.05 per category.
C1_Original == "category_table" \in shown => WithinTolerance

\* C1, amended: for every selection whose filtered set is not empty the
\* percentages of the category summary sum to 100 within 0.05 per category.
C1_PercentagesSumTo100 ==
    ("category_table" \in shown /\ filtered_df # <<>>) => WithinTolerance

C1_Witness ==
    /\ "category_table" \in shown
    /\ Len(category_report) = 3
    /\ PercentageSum = 999

\* C2: in every row of the category summary the counts of the reporter
\* mapping sum to the row's Report_Count.
C2_ReporterCountsSumToReportCount ==
    "category_table" \in shown =>
        \A i \in DOMAIN category_report :
            SumValues(category_report[i].Reporters,
                      DOMAIN category_report[i].Reporters)
                = category_report[i].Report_Count

C2_Witness ==
    /\ "category_table" \in shown
    /\ \E i \in DOMAIN category_report :
          /\ {Unknown, <<>>} \subseteq DOMAIN category_report[i].Reporters
          /\ \E v \in DOMAIN category_report[i].Reporters :
                category_report[i].Reporters[v] = 2

\* The literal "reported by " at position i of the text s.
Occurs(s, i) ==
    /\ i + Len(ReportedBy) - 1 <= Len(s)
    /\ \A k \in 1..Len(ReportedBy) : s[i + k - 1] = ReportedBy[k]

Rest(s, i) == SubSeq(s, i + Len(ReportedBy), Len(s))

NonBlankAt(t) == {k \in 1..Len(t) : t[k] \notin Whitespace}

\* r is t without its leading and trailing whitespace.
IsTrimOf(r, t) ==
    IF NonBlankAt(t) = {} THEN r = <<>>
    ELSE r = SubSeq(t, Kth(NonBlankAt(t), 1),
                    Kth(NonBlankAt(t), Cardinality(NonBlankAt(t))))

Occurrences(s) == {i \in 1..Len(s) : Occurs(s, i)}

\* The literal at i, followed to the end of the text by at least one
\* character and no line break, a line break that ends the text aside.
Qualifies(s, i) ==
    /\ Occurs(s, i)
    /\ Rest(s, i) # <<>>
    /\ \A k \in 1..Len(Rest(s, i)) :
          Rest(s, i)[k] = "\n" => (k = Len(Rest(s, i)) /\ k > 1)

Qualifying(s) == {i \in 1..Len(s) : Qualifies(s, i)}

\* C3 as stated: a missing subject and a text without the literal give
\* "Unknown"; a text with the literal gives the text after it, trimmed.
C3_Original ==
    pc = "return" =>
        /\ isna(subject) => reporter = Unknown
        /\ (~isna(subject) /\ Occurrences(subject) = {}) => reporter = Unknown
        /\ (~isna(subject) /\ Occurrences(subject) # {}) =>
              IsTrimOf(reporter, Rest(subject, Kth(Occurrences(subject), 1)))

\* C3, amended: a missing subject gives "Unknown"; so does a text in which no
\* occurrence of the literal is followed to the end of the text by at least
\* one character and no line break (a line break that ends the text aside);
\* any other text gives the text after the first such occurrence, trimmed.
C3_ExtractReporter ==
    pc = "return" =>
        /\ isna(subject) => reporter = Unknown
        /\ (~isna(subject) /\ Qualifying(subject) = {}) => reporter = Unknown
        /\ (~isna(subject) /\ Qualifying(subject) # {}) =>
              IsTrimOf(reporter, Rest(subject, Kth(Qualifying(subject), 1)))
        /\ subject = JaneDoeSubject =>
              reporter = <<"J", "a", "n", "e", " ", "D", "o", "e">>

C3_Witness ==
    /\ pc = "return"
    /\ ~isna(subject)
    /\ Qualifying(subject) # {}
    /\ reporter # <<>>
    /\ Len(reporter) < Len(Rest(subject, Kth(Qualifying(subject), 1)))

\* A text of whitespace only, the empty text included.
IsBlank(t) == \A k \in 1..Len(t) : t[k] \in Whitespace

\* C4 as stated: after load_data no retained record, and no row of the
\* category summary, has a missing, empty or blank Main_Category.
C4_Claim ==
    (Uploaded /\ pc # "load_data") =>
        /\ \A i \in DOMAIN df :
              ~isna(df[i]["Main_Category"]) /\ ~IsBlank(df[i]["Main_Category"])
        /\ \A i \in DOMAIN category_report :
              /\ ~isna(category_report[i].Main_Category)
              /\ ~IsBlank(category_report[i].Main_Category)

WellFormed(file) ==
    file.sheet = "Internal Requests" /\ file.columns = ExpectedColumns

\* C5 as stated: for every loaded table and every date range that holds no
\* record's date the run ends without an error, with an empty filtered set,
\* a total of 0 and a category summary without rows.
C5_Claim ==
    ( /\ Uploaded
      /\ WellFormed(uploaded_file)
      /\ (df = <<>> \/ Len(date_range) = 2)
      /\ \A i \in DOMAIN df :
            ~(date_range[1] <= df[i]["Date"] /\ df[i]["Date"] <= date_range[2]) )
    => /\ exception = ""
       /\ pc = "end"
       /\ filtered_df = <<>>
       /\ total_complaints = 0
       /\ category_report = <<>>

InSelection(row) ==
    /\ date_range[1] <= row["Date"]
    /\ row["Date"] <= date_range[2]
    /\ row["Main_Category"] \in category_filter

SelectedIndices == {i \in DOMAIN df : InSelection(df[i])}

\* The filtered set is the rows of the loaded table, in order, whose Date is
\* within the current range (ends included) and whose category is currently
\* selected.
FilteredSetIsCurrentSelection ==
    /\ Len(filtered_df) = Cardinality(SelectedIndices)
    /\ \A k \in 1..Len(filtered_df) :
          filtered_df[k] = df[Kth(SelectedIndices, k)]

\* C6 as stated: after any filter changes and button clicks on a loaded
\* upload the run makes the filtered set, which is the current selection of
\* the loaded table, and the loaded table is still the one load_data made of
\* the upload.
C6_Claim ==
    "filters" \in shown =>
        /\ pc # "filtered_df"
        /\ FilteredSetIsCurrentSelection
        /\ df = load_data(uploaded_file)

\* A timestamp cell that is a datetime or the text of one.
Parsable(cell) == cell.kind = "datetime" \/ (cell.kind = "text" /\ cell.day # 0)

RetainedIndices ==
    {i \in DOMAIN uploaded_file.rows :
        Parsable(uploaded_file.rows[i]["Ticket Created At eet"])}

RawTime(k) == uploaded_file.rows[Kth(RetainedIndices, k)]["Ticket Created At eet"]

\* C7: of an upload with the sheet and the columns load_data reads, the
\* loaded table is the rows whose timestamp parses, in order, no error
\* raised; every record of it and of the filtered set has a parsed timestamp,
\* and its Date, Hour and Day are that timestamp's.
C7_RetainedRowsAreTheParsableOnes ==
    ( /\ Uploaded
      /\ uploaded_file.sheet = "Internal Requests"
      /\ {"Main Category Name", "Ticket Created At eet", "Ticket Subject"}
            \subseteq uploaded_file.columns )
    => /\ pc # "load_data"
       /\ Len(df) = Cardinality(RetainedIndices)
       /\ \A k \in 1..Len(df) :
             /\ df[k]["Ticket Subject"]
                   = uploaded_file.rows[Kth(RetainedIndices, k)]["Ticket Subject"]
             /\ df[k]["Report_Time"].kind = "datetime"
             /\ df[k]["Report_Time"].day = RawTime(k).day
             /\ df[k]["Report_Time"].hour = RawTime(k).hour
             /\ df[k]["Date"] = RawTime(k).day
             /\ df[k]["Hour"] = RawTime(k).hour
             /\ df[k]["Day"] = DayNames[((RawTime(k).day - 1) % 7) + 1]
       /\ \A k \in 1..Len(filtered_df) :
             filtered_df[k]["Report_Time"].kind = "datetime"

C7_Witness ==
    /\ Uploaded
    /\ Len(uploaded_file.rows) = 3
    /\ Len(df) = 1
    /\ df[1]["Ticket Subject"] = uploaded_file.rows[2]["Ticket Subject"]
    /\ uploaded_file.rows[2]["Ticket Created At eet"].kind = "text"
    /\ uploaded_file.rows[1]["Ticket Created At eet"].kind = "blank"
    /\ uploaded_file.rows[3]["Ticket Created At eet"].kind = "text"

CategoriesOf(rows) == {rows[i]["Main_Category"] : i \in DOMAIN rows}

\* C8: the exported file's "Detailed Complaints" sheet, read back, has one
\* row per row of the filtered set, with that row's date (read as a
\* timestamp at midnight) and category, and its "Category Summary" sheet one
\* row per category of the filtered set.
C8_ExportRoundTrip ==
    "download_button" \in shown =>
        /\ Len(read_sheet(excel_file.Detailed_Complaints)) = Len(filtered_df)
        /\ \A k \in 1..Len(filtered_df) :
              /\ read_sheet(excel_file.Detailed_Complaints)[k][1]
                    = DateTime(filtered_df[k]["Date"], 0)
              /\ read_sheet(excel_file.Detailed_Complaints)[k][3]
                    = filtered_df[k]["Main_Category"]
        /\ Len(read_sheet(excel_file.Category_Summary))
              = Cardinality(CategoriesOf(filtered_df))
        /\ \A k \in 1..Len(category_report) :
              read_sheet(excel_file.Category_Summary)[k][1]
                  = category_report[k].Main_Category

\* An export of two of three rows, the last with an empty reporter, which
\* is stored as nothing and read back as a missing value.
C8_Witness ==
    /\ "download_button" \in shown
    /\ Len(df) = 3
    /\ Len(filtered_df) = 2
    /\ Len(category_report) = 1
    /\ filtered_df[2]["Reporter"] = <<>>
    /\ Len(read_sheet(excel_file.Detailed_Complaints)) = 2
    /\ isna(read_sheet(excel_file.Detailed_Complaints)[2][5])

Lacks(column) == Uploaded /\ column \notin uploaded_file.columns

WrongSheet == Uploaded /\ uploaded_file.sheet # "Internal Requests"

\* What a run makes of the table: lines 61-172.
Outputs ==
    {"metrics", "category_table", "charts", "reporter_tabs", "all_complaints",
     "generate_button", "download_button"}

RowsOfCategory(key) ==
    {k \in DOMAIN filtered_df : filtered_df[k]["Main_Category"] = key}

\* C10: the category summary has one row per category of the filtered set;
\* its Report_Count is the number of filtered rows of the category, its
\* Percentage the tenth of a percent nearest to 100 * Report_Count over the
\* number of filtered rows; the counts sum to the total shown.
C10_CategorySummary ==
    "category_table" \in shown =>
        /\ {category_report[i].Main_Category : i \in DOMAIN category_report}
              = CategoriesOf(filtered_df)
        /\ Len(category_report) = Cardinality(CategoriesOf(filtered_df))
        /\ \A i \in DOMAIN category_report :
              /\ category_report[i].Report_Count
                    = Cardinality(RowsOfCategory(category_report[i].Main_Category))
              /\ 2 * Abs(category_report[i].Percentage * Len(filtered_df)
                         - 1000 * category_report[i].Report_Count)
                    <= Len(filtered_df)
        /\ SumSeq([i \in DOMAIN category_report |->
                      category_report[i].Report_Count]) = total_complaints
        /\ total_complaints = Len(filtered_df)

C10_Witness ==
    /\ "category_table" \in shown
    /\ Len(df) = 3
    /\ Len(filtered_df) = 2
    /\ Len(category_report) = 2

====
